---- MODULE Spec2Model ----
(***************************************************************************)
(* Model of src/code-parsing/common/code-parser.ts: the CodeParser facade  *)
(* and the LanguageHandler capability it delegates to.                     *)
(*                                                                         *)
(* An invocation of parseCode is a small process that walks through the    *)
(* statements of the method body (lines 182-192).  Several invocations,    *)
(* on the same or on different CodeParser instances, may be in progress at *)
(* once (a handler may re-enter a facade, a caller may hold many facades). *)
(***************************************************************************)
EXTENDS Naturals, Sequences, FiniteSets

\* Number of parseCode invocations a behaviour may start.
MaxInvocations == 3

Invocations == 1..MaxInvocations

\* The CodeParser instances that were constructed.
Parsers == {"p1", "p2"}

\* The input texts handed to parseCode.
Codes == {"", "X"}

(***************************************************************************)
(* The code model (lines 6-151).                                           *)
(***************************************************************************)

\* interface Package
Package(name) == [name |-> name]

\* interface Modifiers
Modifiers(isStatic, isFinal, isAbstract, visibility) ==
    [isStatic |-> isStatic, isFinal |-> isFinal,
     isAbstract |-> isAbstract, visibility |-> visibility]

\* interface Type
Type(package, name, modifiers, type, superClasses, interfaces) ==
    [package |-> package, name |-> name, modifiers |-> modifiers,
     type |-> type, superClasses |-> superClasses, interfaces |-> interfaces]

\* interface Import
Import(value) == [value |-> value]

\* interface ParsedCodeFile, as the object literal parseCode returns.
\* Mutants: the types reversed; every type without a super class given
\* java.lang.Object; every enum given java.lang.Enum.
RECURSIVE Reverse(_)
Reverse(s) == IF s = <<>> THEN <<>> ELSE Append(Reverse(Tail(s)), Head(s))

ParsedCodeFileReordered(imports, types) ==
    [imports |-> imports, types |-> Reverse(types)]

ObjectStub ==
    [package |-> [name |-> "java.lang"], name |-> "Object",
     modifiers |-> [isStatic |-> FALSE, isFinal |-> FALSE,
                    isAbstract |-> FALSE, visibility |-> "public"],
     type |-> "class", superClasses |-> <<>>, interfaces |-> <<>>]

ParsedCodeFileDefaultSuper(imports, types) ==
    [imports |-> imports,
     types |-> [k \in 1..Len(types) |->
                  [types[k] EXCEPT !.superClasses =
                      IF @ = <<>> THEN <<ObjectStub>> ELSE @]]]

ParsedCodeFileEnumSuper(imports, types) ==
    [imports |-> imports,
     types |-> [k \in 1..Len(types) |->
                  IF types[k].type = "enum"
                  THEN [types[k] EXCEPT !.superClasses =
                          <<[ObjectStub EXCEPT !.name = "Enum"]>>]
                  ELSE types[k]]]

ParsedCodeFile(imports, types) == [imports |-> imports, types |-> types]

(***************************************************************************)
(* Stub values the handlers below produce.                                 *)
(***************************************************************************)
PublicModifiers == Modifiers(FALSE, FALSE, FALSE, "public")

TypeStub(name, kind) ==
    Type(Package("a.b"), name, PublicModifiers, kind, <<>>, <<>>)

ClassC == Type(Package("a.b"), "C", PublicModifiers, "class",
               <<TypeStub("Base", "class")>>, <<TypeStub("I", "interface")>>)
InterfaceI == Type(Package("a.b"), "I", PublicModifiers, "interface",
                   <<>>, <<TypeStub("J", "interface")>>)
EnumE == TypeStub("E", "enum")
AnnotationA == TypeStub("A", "annotation")

\* Kind-inconsistent data: kinds other than class carrying super classes.
BadEnumE == Type(Package("a.b"), "E", PublicModifiers, "enum",
                 <<TypeStub("Base", "class")>>, <<>>)
BadInterfaceI == Type(Package("a.b"), "I", PublicModifiers, "interface",
                      <<TypeStub("Base", "class")>>, <<>>)
BadAnnotationA == Type(Package("a.b"), "A", PublicModifiers, "annotation",
                       <<TypeStub("Base", "class")>>, <<>>)

(***************************************************************************)
(* interface LanguageHandler (lines 157-171).  A handler is an external    *)
(* collaborator; a call either returns a sequence or throws.  The handlers *)
(* are deterministic functions of the text they are given.                 *)
(***************************************************************************)
Handlers == {"conforming", "nonconforming", "failing"}

Returns(value) == [kind |-> "return", value |-> value, error |-> ""]
Throws(error)  == [kind |-> "throw", value |-> <<>>, error |-> error]

\* LanguageHandler.parseImports(code)
parseImports(h, c) ==
    CASE h = "conforming" ->
           IF c = "X" THEN Returns(<<Import("a.b.C"), Import("java.util.*")>>)
                      ELSE Returns(<<>>)
      [] h = "nonconforming" ->
           IF c = "X" THEN Returns(<<Import("java.util.*"), Import("a.b.C")>>)
                      ELSE Returns(<<Import("a.b.C")>>)
      [] h = "failing" ->
           IF c = "X" THEN Returns(<<Import("a.b.C")>>)
                      ELSE Throws("ImportsError")

\* LanguageHandler.parseTypes(code)
parseTypes(h, c) ==
    CASE h = "conforming" ->
           IF c = "X" THEN Returns(<<ClassC, InterfaceI, EnumE, AnnotationA>>)
                      ELSE Returns(<<>>)
      [] h = "nonconforming" ->
           IF c = "X" THEN Returns(<<BadEnumE, ClassC, BadInterfaceI>>)
                      ELSE Returns(<<BadAnnotationA, EnumE>>)
      [] h = "failing" ->
           Throws("TypesError")

\* A call the facade made on a handler, as the handler observes it.
HandlerCall(h, op, c) == [handler |-> h, op |-> op, code |-> c]

(***************************************************************************)
(* State.                                                                  *)
(***************************************************************************)
VARIABLES
    languageHandler,  \* CodeParser.languageHandler, per instance
    pc,               \* per invocation: position in parseCode
    this,             \* per invocation: the instance parseCode was called on
    code,             \* per invocation: the argument `code`
    imports,          \* per invocation: const imports (<<>> = not yet bound)
    types,            \* per invocation: const types   (<<>> = not yet bound)
    result,           \* per invocation: <<file>> once returned, else <<>>
    error,            \* per invocation: <<e>> once thrown, else <<>>
    calls             \* per invocation: the handler calls it made, in order

vars == <<languageHandler, pc, this, code, imports, types, result, error, calls>>

\* constructor(private readonly languageHandler: LanguageHandler) {}
Init ==
    /\ languageHandler \in [Parsers -> Handlers]
    /\ pc = [i \in Invocations |-> "idle"]
    /\ this = [i \in Invocations |-> "p1"]
    /\ code = [i \in Invocations |-> ""]
    /\ imports = [i \in Invocations |-> <<>>]
    /\ types = [i \in Invocations |-> <<>>]
    /\ result = [i \in Invocations |-> <<>>]
    /\ error = [i \in Invocations |-> <<>>]
    /\ calls = [i \in Invocations |-> <<>>]

\* The statements of the body of parseCode, in program order: the call of
\* parseImports (line 184), the call of parseTypes (line 186), the return
\* (line 188).
\* Mutant: the two handler calls swapped, types asked for first.
BodyTypesFirst == <<"L186", "L184", "L188">>

Body == <<"L184", "L186", "L188">>

\* The first statement, and the statement that follows statement l.
Entry == Body[1]

After(l) == Body[(CHOOSE k \in 1..Len(Body) : Body[k] = l) + 1]

\* this.languageHandler, read in invocation i.
\* Mutant: the handler of some other instance is used.
HandlerOfOther(i) ==
    IF \E p \in Parsers : languageHandler[p] # languageHandler[this[i]]
    THEN languageHandler[CHOOSE p \in Parsers :
                            languageHandler[p] # languageHandler[this[i]]]
    ELSE languageHandler[this[i]]

HandlerOf(i) == languageHandler[this[i]]

\* The argument of the parseImports call (line 184).
ImportsArg(i) == code[i]

\* The argument of the parseTypes call (line 186).
\* Mutant: the text is kept in a place all invocations share, so the text of
\* the invocation started last is the one parsed.
TypesArgShared(i) ==
    LET started == {j \in Invocations : pc[j] # "idle"}
        last == CHOOSE j \in started : \A k \in started : k <= j
    IN  code[last]

TypesArg(i) == code[i]

\* parseCode(code) is entered on instance p; invocations are numbered in the
\* order they start.
\* Mutant: the instance remembers what it returned for a text and answers a
\* repeated text from that memory.
CallCached(i, p, c) ==
    /\ pc[i] = "idle"
    /\ \A j \in Invocations : j < i => pc[j] # "idle"
    /\ this' = [this EXCEPT ![i] = p]
    /\ code' = [code EXCEPT ![i] = c]
    /\ IF \E j \in Invocations : pc[j] = "returned" /\ this[j] = p /\ code[j] = c
       THEN LET j == CHOOSE j \in Invocations :
                        pc[j] = "returned" /\ this[j] = p /\ code[j] = c
            IN  /\ imports' = [imports EXCEPT ![i] = imports[j]]
                /\ types' = [types EXCEPT ![i] = types[j]]
                /\ pc' = [pc EXCEPT ![i] = "L188"]
       ELSE /\ pc' = [pc EXCEPT ![i] = Entry]
            /\ UNCHANGED <<imports, types>>
    /\ UNCHANGED <<languageHandler, result, error, calls>>

Call(i, p, c) ==
    /\ pc[i] = "idle"
    /\ \A j \in Invocations : j < i => pc[j] # "idle"
    /\ pc' = [pc EXCEPT ![i] = Entry]
    /\ this' = [this EXCEPT ![i] = p]
    /\ code' = [code EXCEPT ![i] = c]
    /\ UNCHANGED <<languageHandler, imports, types, result, error, calls>>

\* const imports: Import[] = this.languageHandler.parseImports(code);
\* Mutant: a failure of parseImports is caught and an empty list used.
ParseImportsSwallow(i) ==
    /\ pc[i] = "L184"
    /\ LET h == HandlerOf(i)
           c == ImportsArg(i)
           r == parseImports(h, c)
       IN  /\ calls' = [calls EXCEPT ![i] = Append(@, HandlerCall(h, "parseImports", c))]
           /\ imports' = [imports EXCEPT ![i] = <<r.value>>]
           /\ pc' = [pc EXCEPT ![i] = After("L184")]
    /\ UNCHANGED <<languageHandler, this, code, types, result, error>>

ParseImports(i) ==
    /\ pc[i] = "L184"
    /\ LET h == HandlerOf(i)
           c == ImportsArg(i)
           r == parseImports(h, c)
       IN  /\ calls' = [calls EXCEPT ![i] = Append(@, HandlerCall(h, "parseImports", c))]
           /\ IF r.kind = "return"
              THEN /\ imports' = [imports EXCEPT ![i] = <<r.value>>]
                   /\ pc' = [pc EXCEPT ![i] = After("L184")]
                   /\ UNCHANGED error
              ELSE /\ error' = [error EXCEPT ![i] = <<r.error>>]
                   /\ pc' = [pc EXCEPT ![i] = "threw"]
                   /\ UNCHANGED imports
    /\ UNCHANGED <<languageHandler, this, code, types, result>>

\* const types: Type[] = this.languageHandler.parseTypes(code);
\* Mutant: a failure of parseTypes is caught and the file returned with the
\* imports alone.
ParseTypesPartial(i) ==
    /\ pc[i] = "L186"
    /\ LET h == HandlerOf(i)
           c == TypesArg(i)
           r == parseTypes(h, c)
       IN  /\ calls' = [calls EXCEPT ![i] = Append(@, HandlerCall(h, "parseTypes", c))]
           /\ types' = [types EXCEPT ![i] = <<r.value>>]
           /\ pc' = [pc EXCEPT ![i] = After("L186")]
    /\ UNCHANGED <<languageHandler, this, code, imports, result, error>>

ParseTypes(i) ==
    /\ pc[i] = "L186"
    /\ LET h == HandlerOf(i)
           c == TypesArg(i)
           r == parseTypes(h, c)
       IN  /\ calls' = [calls EXCEPT ![i] = Append(@, HandlerCall(h, "parseTypes", c))]
           /\ IF r.kind = "return"
              THEN /\ types' = [types EXCEPT ![i] = <<r.value>>]
                   /\ pc' = [pc EXCEPT ![i] = After("L186")]
                   /\ UNCHANGED error
              ELSE /\ error' = [error EXCEPT ![i] = <<r.error>>]
                   /\ pc' = [pc EXCEPT ![i] = "threw"]
                   /\ UNCHANGED types
    /\ UNCHANGED <<languageHandler, this, code, imports, result>>

\* return { imports, types };
\* Mutant: the facade checks the types and rejects a kind other than class
\* that carries super classes.
ReturnValidated(i) ==
    /\ pc[i] = "L188"
    /\ IF \E k \in 1..Len(types[i][1]) :
             types[i][1][k].type # "class" /\ types[i][1][k].superClasses # <<>>
       THEN /\ error' = [error EXCEPT ![i] = <<"ValidationError">>]
            /\ pc' = [pc EXCEPT ![i] = "threw"]
            /\ UNCHANGED result
       ELSE /\ result' = [result EXCEPT ![i] = <<ParsedCodeFile(imports[i][1], types[i][1])>>]
            /\ pc' = [pc EXCEPT ![i] = "returned"]
            /\ UNCHANGED error
    /\ UNCHANGED <<languageHandler, this, code, imports, types, calls>>

Return(i) ==
    /\ pc[i] = "L188"
    /\ result' = [result EXCEPT ![i] = <<ParsedCodeFile(imports[i][1], types[i][1])>>]
    /\ pc' = [pc EXCEPT ![i] = "returned"]
    /\ UNCHANGED <<languageHandler, this, code, imports, types, error, calls>>

Next ==
    \/ \E i \in Invocations, p \in Parsers, c \in Codes : Call(i, p, c)
    \/ \E i \in Invocations : ParseImports(i)
    \/ \E i \in Invocations : ParseTypes(i)
    \/ \E i \in Invocations : Return(i)

Spec == Init /\ [][Next]_vars

(***************************************************************************)
(* Vocabulary of the properties.  The properties read the state and the    *)
(* handlers' answers directly.                                             *)
(***************************************************************************)
\* What the handler answered to the k-th call invocation i made.
Answer(i, k) ==
    IF calls[i][k].op = "parseImports"
    THEN parseImports(calls[i][k].handler, calls[i][k].code)
    ELSE parseTypes(calls[i][k].handler, calls[i][k].code)

\* The positions in the log of invocation i of the calls of operation op.
CallsOf(i, op) == {k \in DOMAIN calls[i] : calls[i][k].op = op}

\* A type of a kind other than class that carries super classes.
KindInconsistent(t) == t.type \in {"interface", "enum", "annotation"} /\ t.superClasses # <<>>

\* The handler never returns an enum with super classes.
EnumConforming(h) ==
    \A c \in Codes : parseTypes(h, c).kind = "return" =>
        \A k \in DOMAIN parseTypes(h, c).value :
            LET t == parseTypes(h, c).value[k]
            IN  t.type = "enum" => t.superClasses = <<>>

\* The handler never returns a kind-inconsistent type.
KindConforming(h) ==
    \A c \in Codes : parseTypes(h, c).kind = "return" =>
        \A k \in DOMAIN parseTypes(h, c).value :
            ~KindInconsistent(parseTypes(h, c).value[k])

(***************************************************************************)
(* C1: whenever parseCode(c) on a facade bound to h has returned, the      *)
(* file's imports are h.parseImports(c) and its types are h.parseTypes(c), *)
(* same length, same element at every index.                               *)
(***************************************************************************)
C1_ResultIsHandlerOutput ==
    \A i \in Invocations : pc[i] = "returned" =>
        LET h == languageHandler[this[i]]
            f == result[i][1]
            hi == parseImports(h, code[i])
            ht == parseTypes(h, code[i])
        IN  /\ Len(result[i]) = 1
            /\ hi.kind = "return" /\ ht.kind = "return"
            /\ Len(f.imports) = Len(hi.value)
            /\ \A k \in 1..Len(hi.value) : f.imports[k] = hi.value[k]
            /\ Len(f.types) = Len(ht.value)
            /\ \A k \in 1..Len(ht.value) : f.types[k] = ht.value[k]

\* A returned file with two imports and with a class at index 1 and an
\* interface at index 2 of its types.
C1_Witness ==
    \E i \in Invocations :
        /\ pc[i] = "returned"
        /\ Len(result[i][1].imports) = 2
        /\ Len(result[i][1].types) >= 2
        /\ result[i][1].types[1].type = "class"
        /\ result[i][1].types[2].type = "interface"

(***************************************************************************)
(* C2: within an invocation parseImports is called before parseTypes,      *)
(* parseTypes is called only once parseImports has returned, and both      *)
(* calls receive the text passed to parseCode.                             *)
(***************************************************************************)
C2_ImportsThenTypesSameText ==
    \A i \in Invocations :
        /\ \A k \in DOMAIN calls[i] : calls[i][k].code = code[i]
        /\ \A k \in CallsOf(i, "parseTypes") :
              /\ \E m \in CallsOf(i, "parseImports") :
                    m < k /\ Answer(i, m).kind = "return"
              /\ imports[i] # <<>>
        /\ \A k \in CallsOf(i, "parseImports") :
              \A m \in CallsOf(i, "parseTypes") : k < m

\* An invocation on a non-empty text that made both calls.
C2_Witness ==
    \E i \in Invocations :
        /\ code[i] = "X"
        /\ CallsOf(i, "parseImports") # {}
        /\ CallsOf(i, "parseTypes") # {}

(***************************************************************************)
(* C3: if parseImports raised during an invocation, the invocation ended   *)
(* with that error, made no parseTypes call and returned no file.          *)
(***************************************************************************)
C3_ImportsErrorPropagates ==
    \A i \in Invocations :
        \A k \in CallsOf(i, "parseImports") :
            Answer(i, k).kind = "throw" =>
                /\ pc[i] = "threw"
                /\ error[i] = <<Answer(i, k).error>>
                /\ CallsOf(i, "parseTypes") = {}
                /\ result[i] = <<>>

\* parseImports raised, on a handler whose parseTypes would raise another
\* error for the same text.
C3_Witness ==
    \E i \in Invocations :
        /\ pc[i] = "threw"
        /\ error[i] = <<"ImportsError">>
        /\ parseTypes(languageHandler[this[i]], code[i]).kind = "throw"
        /\ parseTypes(languageHandler[this[i]], code[i]).error # "ImportsError"

(***************************************************************************)
(* C4: if parseImports returned and parseTypes raised, the invocation      *)
(* ended with the error of parseTypes and returned no file, the imports    *)
(* it had obtained included.                                               *)
(***************************************************************************)
C4_TypesErrorNoPartialResult ==
    \A i \in Invocations :
        \A k \in CallsOf(i, "parseTypes") :
            Answer(i, k).kind = "throw" =>
                /\ pc[i] = "threw"
                /\ error[i] = <<Answer(i, k).error>>
                /\ result[i] = <<>>

\* parseTypes raised after parseImports had returned a non-empty list.
C4_Witness ==
    \E i \in Invocations :
        /\ pc[i] = "threw"
        /\ error[i] = <<"TypesError">>
        /\ imports[i] # <<>>
        /\ imports[i][1] # <<>>

(***************************************************************************)
(* C5: no step changes the handler an instance holds, and every handler    *)
(* call of an invocation is made on the handler of its instance.           *)
(***************************************************************************)
C5_HandlerFixed ==
    /\ [](\A i \in Invocations : \A k \in DOMAIN calls[i] :
            calls[i][k].handler = languageHandler[this[i]])
    /\ [][languageHandler' = languageHandler]_vars

\* Two instances with different handlers, each with a finished invocation,
\* one of which failed and one of which returned.
C5_Witness ==
    \E i, j \in Invocations :
        /\ this[i] # this[j]
        /\ languageHandler[this[i]] # languageHandler[this[j]]
        /\ pc[i] = "threw" /\ pc[j] = "returned"
        /\ calls[i] # <<>> /\ calls[j] # <<>>

(***************************************************************************)
(* C6: an invocation that returned made exactly one parseImports and one   *)
(* parseTypes call, so n returned invocations account for n calls of each; *)
(* no invocation, failed ones included, repeats a call.                    *)
(***************************************************************************)
C6_OneCallEach ==
    LET returned == {i \in Invocations : pc[i] = "returned"}
        made(op) == {ik \in returned \X (1..2 * MaxInvocations) :
                        ik[2] \in CallsOf(ik[1], op)}
    IN  /\ \A i \in returned :
              /\ Cardinality(CallsOf(i, "parseImports")) = 1
              /\ Cardinality(CallsOf(i, "parseTypes")) = 1
              /\ Len(calls[i]) = 2
        /\ Cardinality(made("parseImports")) = Cardinality(returned)
        /\ Cardinality(made("parseTypes")) = Cardinality(returned)
        /\ \A i \in Invocations :
              /\ Cardinality(CallsOf(i, "parseImports")) <= 1
              /\ Cardinality(CallsOf(i, "parseTypes")) <= 1
              /\ pc[i] = "threw" => Answer(i, Len(calls[i])).kind = "throw"

\* Two invocations with the same text on the same instance that both
\* returned, next to one that failed.
C6_Witness ==
    \E i, j, m \in Invocations :
        /\ i # j
        /\ this[i] = this[j] /\ code[i] = code[j]
        /\ pc[i] = "returned" /\ pc[j] = "returned"
        /\ pc[m] = "threw"

(***************************************************************************)
(* C7: with a handler that only returns enums without super classes,       *)
(* every enum in a returned file has no super classes.                     *)
(***************************************************************************)
C7_EnumNoSuperClasses ==
    \A i \in Invocations :
        (pc[i] = "returned" /\ EnumConforming(languageHandler[this[i]])) =>
            \A k \in DOMAIN result[i][1].types :
                result[i][1].types[k].type = "enum" =>
                    result[i][1].types[k].superClasses = <<>>

\* A file with an enum, returned through a conforming handler.
C7_Witness ==
    \E i \in Invocations :
        /\ pc[i] = "returned"
        /\ EnumConforming(languageHandler[this[i]])
        /\ \E k \in DOMAIN result[i][1].types : result[i][1].types[k].type = "enum"

(***************************************************************************)
(* C8: parseCode validates nothing.  Once both handler calls returned, the *)
(* invocation never fails, and kind-inconsistent types the handler         *)
(* returned are in the file at their index; an invocation that failed      *)
(* carries the error of a handler call it made.                            *)
(***************************************************************************)
C8_NoValidation ==
    \A i \in Invocations :
        /\ (Len(calls[i]) = 2 /\ Answer(i, 1).kind = "return" /\ Answer(i, 2).kind = "return")
              => pc[i] \in {"L188", "returned"}
        /\ pc[i] = "returned" =>
              \A k \in CallsOf(i, "parseTypes") :
                  \A n \in DOMAIN Answer(i, k).value :
                      KindInconsistent(Answer(i, k).value[n]) =>
                          /\ n \in DOMAIN result[i][1].types
                          /\ result[i][1].types[n] = Answer(i, k).value[n]
        /\ pc[i] = "threw" =>
              \E k \in DOMAIN calls[i] :
                  Answer(i, k).kind = "throw" /\ error[i] = <<Answer(i, k).error>>

\* A returned file holding an enum and an interface with super classes.
C8_Witness ==
    \E i \in Invocations :
        /\ pc[i] = "returned"
        /\ \E k \in DOMAIN result[i][1].types :
              result[i][1].types[k].type = "enum" /\ result[i][1].types[k].superClasses # <<>>
        /\ \E k \in DOMAIN result[i][1].types :
              result[i][1].types[k].type = "interface" /\ result[i][1].types[k].superClasses # <<>>

(***************************************************************************)
(* C9 as stated: every interface, enum or annotation in any returned file  *)
(* has no super classes.                                                   *)
(***************************************************************************)
C9_AsStated ==
    \A i \in Invocations : pc[i] = "returned" =>
        \A k \in DOMAIN result[i][1].types : ~KindInconsistent(result[i][1].types[k])

(***************************************************************************)
(* C9 amended: every interface, enum or annotation in a file returned      *)
(* through a handler that itself never returns such a type with super      *)
(* classes has no super classes.                                           *)
(***************************************************************************)
C9_KindConsistentIfHandlerIs ==
    \A i \in Invocations :
        (pc[i] = "returned" /\ KindConforming(languageHandler[this[i]])) =>
            \A k \in DOMAIN result[i][1].types :
                result[i][1].types[k].type \in {"interface", "enum", "annotation"} =>
                    result[i][1].types[k].superClasses = <<>>

\* A file with an interface, an enum and an annotation, returned through a
\* kind-conforming handler.
C9_Witness ==
    \E i \in Invocations :
        /\ pc[i] = "returned"
        /\ KindConforming(languageHandler[this[i]])
        /\ \A kind \in {"interface", "enum", "annotation"} :
              \E k \in DOMAIN result[i][1].types : result[i][1].types[k].type = kind

(***************************************************************************)
(* C10: two finished invocations with the same handler and the same text   *)
(* ended the same way, with the same file or the same error, whatever      *)
(* other invocations ran before or between their steps and whichever       *)
(* instances they ran on.                                                  *)
(***************************************************************************)
C10_InvocationsIndependent ==
    \A i, j \in Invocations :
        ( /\ pc[i] \in {"returned", "threw"}
          /\ pc[j] \in {"returned", "threw"}
          /\ languageHandler[this[i]] = languageHandler[this[j]]
          /\ code[i] = code[j] ) =>
            /\ pc[i] = pc[j]
            /\ result[i] = result[j]
            /\ error[i] = error[j]

\* An invocation that started before a finished invocation with another text
\* on the same instance, and an invocation on another instance with the same
\* handler and the same text, both returned, with the same file.
C10_Witness ==
    \E i, j, m \in Invocations :
        /\ i < m /\ i # j /\ m # j
        /\ this[i] # this[j]
        /\ languageHandler[this[i]] = languageHandler[this[j]]
        /\ code[i] = code[j] /\ code[m] # code[i]
        /\ this[m] = this[i]
        /\ pc[m] \in {"returned", "threw"}
        /\ pc[i] = "returned" /\ pc[j] = "returned"
        /\ result[i] = result[j]

====
